---- MODULE Spec2Model ----
(***************************************************************************)
(* Model of the dxrcy/yrhr map pages.                                      *)
(*                                                                         *)
(* Two page scripts exist: src/unnamed/part_000 (markers of radius 6 and a *)
(* legend built by buildLegendFromData) and src/viz/map.js (markers of     *)
(* radius 10, no legend).  Both create the map, start fetch("points.       *)
(* geojson") and continue in a promise chain  fetch -> r.json() -> then.   *)
(*                                                                         *)
(* Spec         the life of one page load (either script).                 *)
(* BuilderSpec  buildLegendFromData applied, up to MaxBuilds times, to a   *)
(*              feature collection drawn from the bounded input set.       *)
(*                                                                         *)
(* Leaflet, fetch and the JavaScript built-ins are modelled by what they   *)
(* do to the state the scripts observe: Array.prototype.sort (in place,    *)
(* stable, aborts when the comparator throws), String.prototype.           *)
(* localeCompare (collation order, argument coerced to text), Map.set      *)
(* (insertion order kept, overwrite keeps the key's place), template       *)
(* literal coercion, L.geoJSON (one marker per feature), map.fitBounds     *)
(* (throws Error("Bounds are not valid.") for the bounds of an empty       *)
(* layer group) and control.addTo (calls onAdd once).  Pan and zoom by the *)
(* user happen inside Leaflet and are not modelled.                        *)
(***************************************************************************)
EXTENDS Integers, Sequences, FiniteSets

VARIABLES
    script,     \* which page script runs
    pc,         \* position of the promise chain
    parsed,     \* data.features as r.json() delivered it (<<>> before the parse)
    data,       \* data.features as it is now
    markers,    \* circle markers of the geoJSON layer added to the map
    viewport,   \* the map's viewport as last set by the script
    legends,    \* legend controls attached to the map, in order of attachment
    unhandled,  \* reason of the unhandled rejection / uncaught error, or "none"
    calls       \* number of buildLegendFromData invocations so far

vars == <<script, pc, parsed, data, markers, viewport, legends, unhandled, calls>>

----------------------------------------------------------------------------
(* Bounds of the model *)

MaxFeatures == 3

MaxBuilds == 2

----------------------------------------------------------------------------
(* Values *)

\* The JavaScript value undefined (a property that is absent from a feature).
undefined == "<undefined>"

Labels == {"a", "B", "X"}

Colors == {"#111", "#222"}

\* A feature's properties: label and color, either of which may be missing.
Features == [label : Labels \cup {undefined}, color : Colors \cup {undefined}]

FeatureCollections == UNION {[1..n -> Features] : n \in 0..MaxFeatures}

LegendScript == "unnamed/part_000"

PlainScript == "viz/map.js"

InitialZoom == 13

\* L.map("map").setView([-37.81, 144.96], 13); coordinates in hundredths of a degree
InitialView == [center |-> <<-3781, 14496>>, zoom |-> InitialZoom]

----------------------------------------------------------------------------
(* JavaScript built-ins used by the scripts *)

\* Text of a value inside a template literal, and of the argument of
\* localeCompare (ToString): undefined becomes the text "undefined".
ToText(v) == IF v = undefined THEN "undefined" ELSE v

\* Place of a text in UTF-16 code-unit order ("B" < "X" < "a" < "undefined"):
\* the order of the < operator on strings, which the scripts do not use.
CodeUnitOrder(text) ==
    CASE text = "B" -> 1
      [] text = "X" -> 2
      [] text = "a" -> 3
      [] text = "undefined" -> 4

\* Place of a text in the collation order localeCompare uses
\* ("a" < "B" < "undefined" < "X": letters first, case second).
CollationOrder(text) ==
    CASE text = "a" -> 1
      [] text = "B" -> 2
      [] text = "undefined" -> 3
      [] text = "X" -> 4

Sign(n) == IF n < 0 THEN -1 ELSE IF n > 0 THEN 1 ELSE 0

\* A comparison by code units where the collation order is meant.
codeUnitCompare(s, that) == Sign(CodeUnitOrder(s) - CodeUnitOrder(ToText(that)))

\* s.localeCompare(that), s a string: that is coerced to text first.
localeCompare(s, that) == Sign(CollationOrder(s) - CollationOrder(ToText(that)))

\* The comparator (a, b) => a.properties.label.localeCompare(b.properties.label)
\* throws a TypeError when a has no label (undefined.localeCompare).
compareThrows(a, b) == a.label = undefined

compareFn(a, b) == localeCompare(a.label, b.label)

\* f is placed after e: decided by a comparator call that does not throw
\* (at most one of f, e lacks a label wherever this is used).
PlacedAfter(f, e) ==
    IF ~compareThrows(f, e) THEN compareFn(f, e) >= 0 ELSE compareFn(e, f) <= 0

\* An unstable insertion: f goes before the elements that compare equal to it.
InsertUnstable(sorted, f) ==
    LET p == Cardinality({i \in 1..Len(sorted) :
                 PlacedAfter(f, sorted[i]) /\ ~PlacedAfter(sorted[i], f)})
    IN  SubSeq(sorted, 1, p) \o <<f>> \o SubSeq(sorted, p + 1, Len(sorted))

\* f inserted into a sorted sequence after every element that does not
\* compare greater than it (equal elements keep their order).
Insert(sorted, f) ==
    LET p == Cardinality({i \in 1..Len(sorted) : PlacedAfter(f, sorted[i])})
    IN  SubSeq(sorted, 1, p) \o <<f>> \o SubSeq(sorted, p + 1, Len(sorted))

RECURSIVE StableSort(_)
\* The array a comparator-consistent, stable sort leaves behind.
StableSort(features) ==
    IF features = <<>> THEN <<>>
    ELSE Insert(StableSort(SubSeq(features, 1, Len(features) - 1)),
                features[Len(features)])

Unlabelled(features) == {i \in 1..Len(features) : features[i].label = undefined}

\* data.features.sort(comparator): sorts the array itself and returns it.
\* Which pairs the comparator is called on, and in which direction, is left
\* to the engine: with fewer than two elements it is never called; two
\* unlabelled features end up adjacent and must be compared with each other,
\* so the call throws; a single unlabelled feature throws only if the engine
\* makes it the receiver.  A throwing comparator aborts the sort before the
\* array is written back.
sort(features) ==
    LET done == [threw |-> FALSE, features |-> StableSort(features)]
        abort == [threw |-> TRUE, features |-> features]
    IN  IF Len(features) < 2 THEN {[threw |-> FALSE, features |-> features]}
        ELSE IF Unlabelled(features) = {} THEN {done}
        ELSE IF Cardinality(Unlabelled(features)) >= 2 THEN {abort}
        ELSE {abort, done}

\* Keys of a Map, in iteration order.
Keys(m) == [i \in 1..Len(m) |-> m[i][1]]

HasKey(m, k) == \E i \in 1..Len(m) : m[i][1] = k

\* A set that keeps the value already stored under a key.
MapSetFirstWins(m, k, v) == IF HasKey(m, k) THEN m ELSE Append(m, <<k, v>>)

\* Map.prototype.set: a new key is appended to the iteration order, a key
\* already present keeps its place and takes the new value.
MapSet(m, k, v) ==
    IF HasKey(m, k)
    THEN [i \in 1..Len(m) |-> IF m[i][1] = k THEN <<k, v>> ELSE m[i]]
    ELSE Append(m, <<k, v>>)

\* The pair stored with key and value swapped.
ColorKeyedEntry(f) == <<f.color, f.label>>

\* mapLegend.set(f.properties.label, f.properties.color)
LegendEntry(f) == <<f.label, f.color>>

RECURSIVE mapLegend(_)
\* new Map() followed by sortedFeatures.forEach(f => mapLegend.set(...))
mapLegend(sortedFeatures) ==
    IF sortedFeatures = <<>> THEN <<>>
    ELSE LET e == LegendEntry(sortedFeatures[Len(sortedFeatures)])
         IN  MapSet(mapLegend(SubSeq(sortedFeatures, 1, Len(sortedFeatures) - 1)),
                    e[1], e[2])

\* Array.from(mapLegend.entries): the method itself is passed, not its result;
\* a function is an array-like of length 0, so the array is empty (and unused).
sortedLegend(m) == <<>>

\* legend.onAdd: the heading, then one row per Map entry in iteration order.
onAdd(m) ==
    [heading |-> "Legend",
     rows |-> [i \in 1..Len(m) |->
                  [swatch |-> ToText(m[i][2]), text |-> ToText(m[i][1])]]]

\* L.control({position: "bottomright"}) with its onAdd, as rendered by addTo.
LegendControl(m) == [position |-> "bottomright", mapLegend |-> m, div |-> onAdd(m)]

\* The control ends up on the map twice.
addToTwice(controls, c) == Append(Append(controls, c), c)

\* legend.addTo(map)
addTo(controls, c) == Append(controls, c)

\* buildLegendFromData(data): every outcome the call can have.
\*   threw    a TypeError left the function (nothing was attached)
\*   features data.features when the call is over
\*   controls the map's legend controls when the call is over
buildLegendFromData(features, controls) ==
    {[threw |-> o.threw,
      features |-> o.features,
      controls |-> IF o.threw THEN controls
                   ELSE addTo(controls, LegendControl(mapLegend(o.features)))]
        : o \in sort(features)}

----------------------------------------------------------------------------
(* Leaflet calls of the fetch callback *)

\* radius option of L.circleMarker in pointToLayer
Radius(page) == IF page = LegendScript THEN 6 ELSE 10

\* L.geoJSON(data, {pointToLayer, onEachFeature}): one circle marker per
\* feature, in the order of data.features, each with its tooltip bound.
geoJSON(features, page) ==
    [i \in 1..Len(features) |->
        [radius |-> Radius(page),
         color |-> features[i].color,
         label |-> features[i].label,
         tooltip |-> features[i].label]]

\* layer.getBounds() is valid only if the layer group holds a marker;
\* map.fitBounds throws Error("Bounds are not valid.") otherwise.
fitBoundsThrows(layer) == layer = <<>>

\* map.fitBounds(layer.getBounds(), {padding: [20, 20]})
fitBounds(layer) == [bounds |-> {layer[i] : i \in 1..Len(layer)}, padding |-> <<20, 20>>]

----------------------------------------------------------------------------
(* One page load *)

\* A page whose legend is built before the data has arrived.
InitEagerLegend ==
    /\ script \in {LegendScript, PlainScript}
    /\ pc = "pending"
    /\ parsed = <<>>
    /\ data = <<>>
    /\ markers = <<>>
    /\ viewport = InitialView
    /\ legends = <<LegendControl(<<>>)>>
    /\ unhandled = "none"
    /\ calls = 0

\* The script has run to its end: the map is created and centred, the tile
\* layer is added, the fetch is started and its callbacks are registered.
Init ==
    /\ script \in {LegendScript, PlainScript}
    /\ pc = "pending"
    /\ parsed = <<>>
    /\ data = <<>>
    /\ markers = <<>>
    /\ viewport = InitialView
    /\ legends = <<>>
    /\ unhandled = "none"
    /\ calls = 0

\* fetch("points.geojson") is fulfilled with a response.
FetchResolve ==
    /\ pc = "pending"
    /\ pc' = "response"
    /\ UNCHANGED <<script, parsed, data, markers, viewport, legends, unhandled, calls>>

\* A failed fetch is caught and answered with an empty legend.
FetchRejectHandled ==
    /\ pc = "pending"
    /\ pc' = "rejected"
    /\ unhandled' = "NetworkError"
    /\ legends' = addTo(legends, LegendControl(<<>>))
    /\ UNCHANGED <<script, parsed, data, markers, viewport, calls>>

\* fetch rejects (network error): neither then-callback runs and nothing
\* catches the rejection.
FetchReject ==
    /\ pc = "pending"
    /\ pc' = "rejected"
    /\ unhandled' = "NetworkError"
    /\ UNCHANGED <<script, parsed, data, markers, viewport, legends, calls>>

\* r => r.json() is fulfilled with the parsed feature collection.
JsonResolve ==
    /\ pc = "response"
    /\ \E features \in FeatureCollections : parsed' = features /\ data' = features
    /\ pc' = "parsed"
    /\ UNCHANGED <<script, markers, viewport, legends, unhandled, calls>>

\* r.json() rejects (the payload is not JSON): the data callback never runs.
JsonReject ==
    /\ pc = "response"
    /\ pc' = "rejected"
    /\ unhandled' = "SyntaxError"
    /\ UNCHANGED <<script, parsed, data, markers, viewport, legends, calls>>

\* data => {...} with an empty collection: the layer is added, then
\* map.fitBounds throws and the callback is left.
ThenDataNoBounds ==
    /\ pc = "parsed"
    /\ fitBoundsThrows(geoJSON(data, script))
    /\ markers' = geoJSON(data, script)
    /\ pc' = "rejected"
    /\ unhandled' = "Error: Bounds are not valid."
    /\ UNCHANGED <<script, parsed, data, viewport, legends, calls>>

\* data => {...} of src/viz/map.js: markers and viewport, no legend.
ThenDataPlain ==
    /\ pc = "parsed"
    /\ script = PlainScript
    /\ ~fitBoundsThrows(geoJSON(data, script))
    /\ markers' = geoJSON(data, script)
    /\ viewport' = fitBounds(geoJSON(data, script))
    /\ pc' = "done"
    /\ UNCHANGED <<script, parsed, data, legends, unhandled, calls>>

\* data => {...} of src/unnamed/part_000: markers, viewport, then
\* buildLegendFromData(data), whose TypeError rejects the chain.
ThenDataLegend ==
    /\ pc = "parsed"
    /\ script = LegendScript
    /\ ~fitBoundsThrows(geoJSON(data, script))
    /\ markers' = geoJSON(data, script)
    /\ viewport' = fitBounds(geoJSON(data, script))
    /\ \E o \in buildLegendFromData(data, legends) :
          /\ data' = o.features
          /\ legends' = o.controls
          /\ pc' = IF o.threw THEN "rejected" ELSE "done"
          /\ unhandled' = IF o.threw THEN "TypeError" ELSE unhandled
    /\ calls' = calls + 1
    /\ UNCHANGED <<script, parsed>>

ThenData == ThenDataNoBounds \/ ThenDataPlain \/ ThenDataLegend

Next == FetchResolve \/ FetchReject \/ JsonResolve \/ JsonReject \/ ThenData

Spec == Init /\ [][Next]_vars

----------------------------------------------------------------------------
(* buildLegendFromData on its own *)

\* A map without legend and a feature collection to call the builder on.
InitBuilder ==
    /\ script = LegendScript
    /\ pc = "builder"
    /\ parsed \in FeatureCollections
    /\ data = parsed
    /\ markers = <<>>
    /\ viewport = InitialView
    /\ legends = <<>>
    /\ unhandled = "none"
    /\ calls = 0

\* One call buildLegendFromData(data) on the collection as the previous call
\* left it.
Build ==
    /\ pc = "builder"
    /\ calls < MaxBuilds
    /\ \E o \in buildLegendFromData(data, legends) :
          /\ data' = o.features
          /\ legends' = o.controls
          /\ unhandled' = IF o.threw THEN "TypeError" ELSE unhandled
    /\ calls' = calls + 1
    /\ UNCHANGED <<script, pc, parsed, markers, viewport>>

NextBuilder == Build

BuilderSpec == InitBuilder /\ [][NextBuilder]_vars

----------------------------------------------------------------------------
(* Properties *)

Rows(k) == legends[k].div.rows

\* Every feature carries a label string.
WellLabelled(features) == Unlabelled(features) = {}

DistinctLabels(features) ==
    \A i, j \in 1..Len(features) : i # j => features[i].label # features[j].label

\* The positions of the features labelled l.
Labelled(features, l) == {i \in 1..Len(features) : features[i].label = l}

Last(S) == CHOOSE i \in S : \A j \in S : j <= i

LabelsOf(features) == [i \in 1..Len(features) |-> features[i].label]

RECURSIVE Distinct(_)
\* A sequence without the repeats of a value already seen.
Distinct(s) ==
    IF s = <<>> THEN <<>>
    ELSE LET front == Distinct(SubSeq(s, 1, Len(s) - 1))
         IN  IF \E i \in 1..Len(front) : front[i] = s[Len(s)]
             THEN front
             ELSE Append(front, s[Len(s)])

MissingAttribute(features) ==
    \E i \in 1..Len(features) :
        features[i].label = undefined \/ features[i].color = undefined

FetchFailed == unhandled \in {"NetworkError", "SyntaxError"}

\* The data callback has run (to its end or to a throw).
CallbackRan == pc \in {"done", "rejected"} /\ ~FetchFailed

\* C1: called on N features with pairwise distinct labels, buildLegendFromData
\* attaches a legend of exactly N rows, one per feature, and the row of a
\* feature shows that feature's label and color (as does the Map entry).
C1_DistinctLabelsOneRowEach ==
    (calls >= 1 /\ WellLabelled(data) /\ DistinctLabels(data)) =>
        /\ Len(legends) = calls
        /\ \A k \in 1..Len(legends) :
              /\ Len(Rows(k)) = Len(data)
              /\ \A i \in 1..Len(data) : \E r \in 1..Len(Rows(k)) :
                    /\ legends[k].mapLegend[r] = <<data[i].label, data[i].color>>
                    /\ Rows(k)[r].text = data[i].label
                    /\ Rows(k)[r].swatch = ToText(data[i].color)

C1_Witness ==
    /\ calls >= 1
    /\ Len(parsed) = 3
    /\ DistinctLabels(parsed)
    /\ WellLabelled(parsed)
    /\ parsed[1].color = parsed[2].color
    /\ Len(legends) >= 1
    /\ Len(Rows(1)) = 3

\* C2: when several features share a label, every legend built has exactly
\* one row for that label, colored like the last of them in the sorted
\* sequence, which is the last of them in the input; the builder completes
\* when every feature is labelled; [{X,#111},{X,#222}] gives one X row of
\* color #222.
C2_SharedLabelLastWins ==
    /\ \A l \in Labels :
          Cardinality(Labelled(data, l)) >= 2 =>
              \A k \in 1..Len(legends) :
                  /\ Cardinality({r \in 1..Len(Rows(k)) : Rows(k)[r].text = l}) = 1
                  /\ \A r \in 1..Len(Rows(k)) :
                        Rows(k)[r].text = l =>
                           /\ Rows(k)[r].swatch
                                 = ToText(data[Last(Labelled(data, l))].color)
                           /\ Rows(k)[r].swatch
                                 = ToText(parsed[Last(Labelled(parsed, l))].color)
    /\ (calls >= 1 /\ WellLabelled(data)) => Len(legends) = calls
    /\ (calls >= 1 /\ parsed = <<[label |-> "X", color |-> "#111"],
                                 [label |-> "X", color |-> "#222"]>>)
          => Rows(1) = <<[swatch |-> "#222", text |-> "X"]>>

C2_Witness ==
    /\ calls >= 1
    /\ parsed = <<[label |-> "X", color |-> "#111"],
                  [label |-> "a", color |-> "#111"],
                  [label |-> "X", color |-> "#222"]>>
    /\ Rows(1) = <<[swatch |-> "#111", text |-> "a"],
                   [swatch |-> "#222", text |-> "X"]>>

\* C3: whatever the input order, the rows of a legend are in non-decreasing
\* collation order of their labels; they are the Map's entries in insertion
\* order, which is the order of the sorted features with repeats of a label
\* left out.
C3_RowsInLabelOrder ==
    \A k \in 1..Len(legends) :
        /\ \A r \in 1..(Len(Rows(k)) - 1) :
              CollationOrder(Rows(k)[r].text) <= CollationOrder(Rows(k)[r + 1].text)
        /\ \A r \in 1..Len(Rows(k)) :
              Rows(k)[r].text = ToText(Keys(legends[k].mapLegend)[r])
        /\ Keys(legends[k].mapLegend) = Distinct(LabelsOf(data))

C3_Witness ==
    /\ calls >= 1
    /\ Len(parsed) = 3
    /\ parsed[1].label = "X"
    /\ parsed[2].label = "a"
    /\ parsed[3].label = "X"
    /\ Len(legends) >= 1
    /\ Keys(legends[1].mapLegend) = <<"a", "X">>

\* C4: after a failed fetch or a failed parse nothing handles the rejection,
\* the chain stays rejected, and the map has no markers, the initial
\* viewport and no legend from then on.
C4_FetchFailureLeavesMapInitial ==
    /\ [](FetchFailed =>
             /\ pc = "rejected"
             /\ markers = <<>>
             /\ viewport = InitialView
             /\ legends = <<>>)
    /\ [][FetchFailed => (unhandled' = unhandled /\ pc' = pc)]_vars

C4_Witness ==
    /\ unhandled = "SyntaxError"
    /\ pc = "rejected"
    /\ script = LegendScript

\* C5 (as claimed): no call of buildLegendFromData ends in an error; also
\* with a label or color missing the call completes and attaches a legend
\* whose rows show the text "undefined" for what is missing.
C5_BuilderNeverFails ==
    (calls >= 1 /\ MissingAttribute(parsed)) =>
        /\ unhandled = "none"
        /\ Len(legends) = calls
        /\ \A k \in 1..Len(legends) : \A i \in 1..Len(data) :
              \E r \in 1..Len(Rows(k)) : Rows(k)[r].text = ToText(data[i].label)

\* C6 (as claimed): once the callback has run on an empty collection, the
\* page of part_000 has one legend with the heading and no rows, and the
\* viewport is still the initial one.
C6_EmptyCollectionHeadingOnly ==
    (script = LegendScript /\ CallbackRan /\ parsed = <<>>) =>
        /\ Len(legends) = 1
        /\ legends[1].div = [heading |-> "Legend", rows |-> <<>>]
        /\ viewport = InitialView

\* C7: markers, the fitted viewport and the legend exist only once the data
\* callback has run, which needs the fetch fulfilled and the payload parsed;
\* while the fetch or the parse is pending the map is in its initial state,
\* without markers and without legend.
C7_NothingBeforeParse ==
    /\ pc \in {"pending", "response", "parsed"} =>
          /\ markers = <<>>
          /\ legends = <<>>
          /\ viewport = InitialView
          /\ calls = 0
    /\ (markers # <<>> \/ legends # <<>> \/ viewport # InitialView \/ calls > 0) =>
          /\ CallbackRan
          /\ markers = geoJSON(parsed, script)

C7_Witness ==
    /\ pc = "done"
    /\ script = LegendScript
    /\ Len(markers) = 2
    /\ viewport # InitialView
    /\ Len(legends) = 1

\* C8: the map never holds more than one legend control, and an attached
\* legend (its Map, its rows) stays as it is in every later state.
C8_LegendAttachedOnceAndKept ==
    /\ [](Len(legends) <= 1)
    /\ [][legends # <<>> => legends' = legends]_vars

C8_Witness ==
    /\ pc = "done"
    /\ Len(legends) = 1
    /\ Len(Rows(1)) = 2

\* C9: every call of buildLegendFromData on the same collection yields the
\* same legend (same Map entries, same rows, same order), although the first
\* call leaves the collection sorted; a labelled collection gets one legend
\* per call.
C9_RebuildSameLegend ==
    /\ \A i, j \in 1..Len(legends) : legends[i] = legends[j]
    /\ (calls >= 1 /\ WellLabelled(parsed)) => Len(legends) = calls

C9_Witness ==
    /\ calls = 2
    /\ Len(legends) = 2
    /\ data # parsed
    /\ parsed[1].label = parsed[2].label
    /\ parsed[1].color # parsed[2].color
    /\ legends[1] = legends[2]

\* C10 (as claimed): buildLegendFromData leaves data.features in the order
\* the parse gave it.
C10_FeaturesOrderKept == data = parsed

====
